---- MODULE Spec2Model ----
(***************************************************************************)
(* Execution context and action dispatch of browsergym.async_core.         *)
(*                                                                         *)
(* execute_python_code (action/base.py) binds five context variables       *)
(* (action/functions.py) and runs agent code whose statements are catalog  *)
(* actions.  The model keeps one contextvars.Context per asyncio task, a   *)
(* stack of in-flight execute_python_code frames per task, and the tab     *)
(* list of one browsing context per task.                                  *)
(***************************************************************************)
EXTENDS Integers, Sequences, FiniteSets, TLC

\* ------------------------------------------------------------------ bounds
MaxCalls == 2       \* entry-point calls (execute_python_code or a bare action) per task
MaxCodeLen == 2     \* lines of one submitted code text
MaxTabs == 3        \* pages ever created in the browsing context of task 1
MaxTabsOther == 2   \* pages ever created in the browsing context of task 2
MaxTextLen == 2     \* length of a short text argument
LongTextLen == 250  \* length of a long text argument
MaxFiles == 1       \* files in the list given to an upload
MaxGetters == 3     \* concurrent callers of _get_global_playwright
MaxInvocations == 3 \* execute_python_code invocations of one process

\* ------------------------------------------------------ program constants
TypingBudgetMs == 2000   \* delay = max(2000 / len(text), 10)
MinDelayMs == 10

\* --------------------------------------------------------------- constants
Tasks == {1, 2}
\* A ContextVar holds no value (<<>>) or one value (<<v>>).
Unset == <<>>
Val(v) == <<v>>
Get(x) == x[1]
NoPage == <<0, 0>>
NoId == <<0, 0>>
Marker == "OVERRIDE_RETRY_WITH_FORCE=True"
Call == "await <action>(...)"
Lines == {Marker, Call}

SeqsUpTo(S, n) == UNION {[1..m -> S] : m \in 0..n}
Codes == SeqsUpTo(Lines, MaxCodeLen)

ElementActions == {"click"}
TabActions == {"new_tab", "tab_close", "tab_focus"}
ActionNames == ElementActions \cup TabActions \cup {"goto", "send_msg_to_user"}

\* ---------------------------------------------------------------- state
VARIABLES
    ctxStore,     \* contextvars.Context of each task: the five ContextVar values
    stack,        \* per task: in-flight execute_python_code frames, innermost last
    calls,        \* per task: entry-point calls made so far
    tabs,         \* per browsing context: context.pages, the open tabs in creation order
    created,      \* per browsing context: pages ever created
    effects,      \* per browsing context: clicks and navigations applied so far
    last,         \* per task: outcome of the call it awaited last, until its next call
    inv,          \* one catalog action followed statement by statement, with its trace
    PLAYWRIGHT,   \* the module global _PLAYWRIGHT of browsergym.async_core
    started,      \* automation engines started so far
    getters,      \* per caller of _get_global_playwright: where it is, its local pw, its result
    ACTION_EXEC_MODULE,  \* the module global _ACTION_EXEC_MODULE of action/base.py
    built,        \* times the namespace template was built
    dicts,        \* the name bindings of each dictionary: the template's and the namespaces'
    runs          \* per execute_python_code invocation: where it is, its namespace, its bound values

coreVars == <<ctxStore, stack, calls, tabs, created, effects, last>>
catalogVars == <<inv>>
engineVars == <<PLAYWRIGHT, started, getters>>
nsVars == <<ACTION_EXEC_MODULE, built, dicts, runs>>
vars == <<coreVars, catalogVars, engineVars, nsVars>>

\* What the steps of execute_python_code and of the tab actions leave alone.
aux == <<catalogVars, engineVars, nsVars>>

\* Pages ever created in browsing context c are at most TabLimit(c).
TabLimit(c) == IF c = 1 THEN MaxTabs ELSE MaxTabsOther

\* A page handle: <<browsing context, serial>>.
PageOf(c, n) == <<c, n>>
ContextOf(page) == page[1]
IsOpen(page) == \E i \in DOMAIN tabs[ContextOf(page)] : tabs[ContextOf(page)][i] = page[2]

VarNames == {"page", "smu", "rii", "retry", "demo"}
UnsetCtx == [page |-> Unset, smu |-> Unset, rii |-> Unset, retry |-> Unset, demo |-> Unset]

NoAct == [name |-> "none", phase |-> "none", page |-> NoPage, demo |-> "off",
          retry |-> FALSE, cb |-> NoId, attempts |-> <<>>, target |-> NoPage,
          index |-> 0, err |-> "none"]

NoLast == [kind |-> "none", result |-> "none", err |-> "none", started |-> 0,
           pending |-> FALSE, left |-> 0, unhandled |-> 0]

\* -------------------------------------------------------- pure functions
\* "OVERRIDE_RETRY_WITH_FORCE=True" in code
RetryNever(code) == FALSE
RetryWithForce(code) == \E i \in DOMAIN code : code[i] = Marker

\* "default" if get_global_demo_mode() else "off"
DemoMode(flag) == IF flag THEN "default" ELSE "off"

\* The context the body of run_in_context executes in.  ctx.run(run_in_context)
\* only creates the coroutine inside the copy; the coroutine is then awaited,
\* and runs, in the current context of the awaiting asyncio task.
SharedContext(t) == 1
RunContext(t) == t

\* Index of the first call line after position pc, or Len(code) + 1.
NextCallLine(code, pc) ==
    LET later == {i \in DOMAIN code : i > pc /\ code[i] = Call}
    IN  IF later = {} THEN Len(code) + 1
        ELSE CHOOSE i \in later : \A j \in later : i <= j

Top(t) == stack[t][Len(stack[t])]
WithTop(t, f) == [stack EXCEPT ![t] = [@ EXCEPT ![Len(@)] = f]]
Popped(t) == SubSeq(stack[t], 1, Len(stack[t]) - 1)

\* ------------------------------------------------ execute_python_code
\* Lines 96-100 of run_in_context: the five ContextVar.set calls, made in the
\* context the coroutine body runs in.
Bind(t, id, code, page, flag) ==
    [ctxStore EXCEPT ![RunContext(t)] =
        [page  |-> Val(page),
         smu   |-> Val(id),
         rii   |-> Val(id),
         retry |-> Val(RetryWithForce(code)),
         demo  |-> Val(DemoMode(flag))]]

\* The variables that hold a value in a context.
Bound(c) == {v \in VarNames : c[v] # Unset}

\* The locals of one call: code, page, retry_with_force, demo_mode, ctx (of the
\* copy_context() snapshot of line 90, which variables hold a value), the
\* position in the code and the catalog action in progress.  active (the
\* page the call was bound to or last set itself), started, nested and
\* unhandled are history of the call.
NewFrame(t, kind, code, page, flag) ==
    [id |-> <<t, calls[t] + 1>>, kind |-> kind, code |-> code, page |-> page,
     retry_with_force |-> RetryWithForce(code),
     demo_mode |-> DemoMode(flag),
     ctx |-> Bound(ctxStore[RunContext(t)]), pc |-> 0, act |-> NoAct, active |-> page,
     started |-> 0, nested |-> FALSE, unhandled |-> 0]

\* A task awaits execute_python_code(code, page, callbacks) on an open page of
\* its browsing context; flag is what get_global_demo_mode() returns on line
\* 87.  Nothing suspends between the call and the binding.
Execute(t, code, page, flag) ==
    /\ stack[t] = <<>>
    /\ calls[t] < MaxCalls
    /\ ContextOf(page) = t /\ IsOpen(page)
    /\ stack' = [stack EXCEPT ![t] = <<NewFrame(t, "exec", code, page, flag)>>]
    /\ ctxStore' = Bind(t, <<t, calls[t] + 1>>, code, page, flag)
    /\ calls' = [calls EXCEPT ![t] = @ + 1]
    /\ last' = [last EXCEPT ![t] = NoLast]
    /\ UNCHANGED <<aux, tabs, created, effects>>

\* A task awaits one catalog action directly, outside execute_python_code.
DirectCall(t) ==
    /\ stack[t] = <<>>
    /\ calls[t] < MaxCalls
    /\ stack' = [stack EXCEPT ![t] = <<NewFrame(t, "direct", <<Call>>, NoPage, FALSE)>>]
    /\ calls' = [calls EXCEPT ![t] = @ + 1]
    /\ last' = [last EXCEPT ![t] = NoLast]
    /\ UNCHANGED <<aux, ctxStore, tabs, created, effects>>

\* The callback awaited by send_msg_to_user itself awaits execute_python_code,
\* in the same task, while the outer call is in flight.
CallbackExecute(t, code, page, flag) ==
    /\ stack[t] # <<>>
    /\ Top(t).act.phase = "callback"
    /\ calls[t] < MaxCalls
    /\ ContextOf(page) = t /\ IsOpen(page)
    /\ stack' = [stack EXCEPT ![t] = Append(@, NewFrame(t, "exec", code, page, flag))]
    /\ ctxStore' = Bind(t, <<t, calls[t] + 1>>, code, page, flag)
    /\ calls' = [calls EXCEPT ![t] = @ + 1]
    /\ UNCHANGED <<aux, tabs, created, effects, last>>


\* ------------------------------------------------------ catalog actions
\* Helpers on the frame whose code is running.
Running(t) == stack[t] # <<>> /\ Top(t).act.phase # "failed"
InPhase(t, name, phase) ==
    /\ stack[t] # <<>>
    /\ Top(t).act.name = name
    /\ Top(t).act.phase = phase

Fail(f, err) == [f EXCEPT !.act.phase = "failed", !.act.err = err]

\* The awaited action returned: the code moves past its call line.  The
\* record of the action is kept until the next one begins.
Complete(f) == [f EXCEPT !.act.phase = "done", !.pc = NextCallLine(f.code, f.pc)]

Idle(f) == f.act.phase \in {"none", "done"}

\* One click or navigation applied to a page of browsing context c; the tab
\* operations show in tabs and created.
Applied(c) == [effects EXCEPT ![c] = @ + 1]

\* The ContextVar.get() calls an action makes before its first await; a
\* get() of a variable with no value raises LookupError.
Reads(name) ==
    CASE name \in ElementActions -> {"page", "demo", "retry"}
      [] name = "send_msg_to_user" -> {"smu"}
      [] OTHER -> {"page"}

FirstPhase(name) ==
    CASE name \in ElementActions -> "resolve"
      [] name = "goto" -> "op"
      [] name = "send_msg_to_user" -> "callback"
      [] name = "new_tab" -> "new_page"
      [] name = "tab_close" -> "close"
      [] name = "tab_focus" -> "bring_to_front"

\* tab_focus line 627: page.context.pages[index], on a list indexed from 1
PageAtFirst(pages, index) == pages[1]
PageAt(pages, index) == pages[index + 1]

\* The code reaches its next call line and calls the action up to its first
\* await.  index is the argument of tab_focus (0-based, as in Python).
Begin(t, name, index) ==
    /\ stack[t] # <<>>
    /\ LET f == Top(t)
           c == ctxStore[RunContext(t)]
           line == NextCallLine(f.code, f.pc)
           g == [f EXCEPT !.started = @ + 1, !.act = [NoAct EXCEPT !.name = name]]
           pages == tabs[ContextOf(Get(c.page))]
       IN
       /\ Idle(f)
       /\ line <= Len(f.code)
       /\ name = "new_tab" /\ c.page # Unset
             => created[ContextOf(Get(c.page))] < TabLimit(ContextOf(Get(c.page)))
       /\ name = "tab_close" /\ c.page # Unset
             => \/ created[ContextOf(Get(c.page))] < TabLimit(ContextOf(Get(c.page)))
                \/ \E i \in DOMAIN pages : pages[i] # Get(c.page)[2]
       /\ name = "tab_focus" \/ index = 0
       /\ stack' =
            IF \E v \in Reads(name) : c[v] = Unset
            THEN WithTop(t, Fail(g, "LookupError"))
            ELSE IF name = "tab_focus" /\ index >= Len(pages)
            THEN WithTop(t, Fail([g EXCEPT !.act.page = Get(c.page)], "IndexError"))
            ELSE WithTop(t,
                   [g EXCEPT
                      !.act.phase = FirstPhase(name),
                      !.act.page = IF "page" \in Reads(name) THEN Get(c.page) ELSE @,
                      !.act.demo = IF "demo" \in Reads(name) THEN Get(c.demo) ELSE @,
                      !.act.retry = IF "retry" \in Reads(name) THEN Get(c.retry) ELSE @,
                      !.act.cb = IF "smu" \in Reads(name) THEN Get(c.smu) ELSE @,
                      !.act.target =
                          IF name = "tab_focus"
                          THEN PageOf(ContextOf(Get(c.page)), PageAt(pages, index))
                          ELSE @,
                      !.act.index = IF name = "tab_focus" THEN index ELSE @])
    /\ UNCHANGED <<aux, ctxStore, calls, tabs, created, effects, last>>

Outcomes == {"ok", "actionability", "other"}

\* get_elem_by_bid, then add_demo_mode_effects (whose failures are swallowed):
\* the element is found on an open page, or the lookup raises.
Resolve(t, found) ==
    /\ \E name \in ElementActions : InPhase(t, name, "resolve")
    /\ found => IsOpen(Top(t).act.page)
    /\ stack' = WithTop(t, IF found THEN [Top(t) EXCEPT !.act.phase = "attempt"]
                           ELSE Fail(Top(t), "ElementNotFound"))
    /\ UNCHANGED <<aux, ctxStore, calls, tabs, created, effects, last>>

\* call_fun(do, retry_with_force): what follows the outcome of do(force=False).
CallFunRetriesAll(outcome, retry_with_force) ==
    IF outcome = "ok" THEN "done"
    ELSE IF retry_with_force THEN "retry"
    ELSE "raise"
CallFun(outcome, retry_with_force) ==
    IF outcome = "ok" THEN "done"
    ELSE IF outcome = "actionability" /\ retry_with_force THEN "retry"
    ELSE "raise"

\* do(force=False)
Attempt(t, outcome) ==
    /\ \E name \in ElementActions : InPhase(t, name, "attempt")
    /\ LET f == [Top(t) EXCEPT !.act.attempts = Append(@, [force |-> FALSE, outcome |-> outcome])]
           next == CallFun(outcome, f.act.retry)
       IN
       /\ stack' = WithTop(t,
            CASE next = "done" -> Complete(f)
              [] next = "retry" -> [f EXCEPT !.act.phase = "forced"]
              [] OTHER -> Fail(f, outcome))
       /\ effects' = IF next = "done" THEN Applied(ContextOf(f.act.page)) ELSE effects
    /\ UNCHANGED <<aux, ctxStore, calls, tabs, created, last>>

\* do(force=True): its failure is the failure of the action.
Forced(t, outcome) ==
    /\ \E name \in ElementActions : InPhase(t, name, "forced")
    /\ LET f == [Top(t) EXCEPT !.act.attempts = Append(@, [force |-> TRUE, outcome |-> outcome])]
       IN
       /\ stack' = WithTop(t, IF outcome = "ok" THEN Complete(f)
                              ELSE Fail(f, outcome))
       /\ effects' = IF outcome = "ok" THEN Applied(ContextOf(f.act.page)) ELSE effects
    /\ UNCHANGED <<aux, ctxStore, calls, tabs, created, last>>

\* goto: await page.goto(url)
PageOp(t, ok) ==
    /\ InPhase(t, "goto", "op")
    /\ ok => IsOpen(Top(t).act.page)
    /\ stack' = WithTop(t, IF ok THEN Complete(Top(t))
                           ELSE Fail(Top(t), "NavigationError"))
    /\ effects' = IF ok THEN Applied(ContextOf(Top(t).act.page)) ELSE effects
    /\ UNCHANGED <<aux, ctxStore, calls, tabs, created, last>>

\* send_msg_to_user: the awaited callback returns or raises.
CallbackReturn(t, ok) ==
    /\ InPhase(t, "send_msg_to_user", "callback")
    /\ stack' = WithTop(t, IF ok THEN Complete(Top(t)) ELSE Fail(Top(t), "callback"))
    /\ UNCHANGED <<aux, ctxStore, calls, tabs, created, effects, last>>

\* new_tab line 573, tab_close line 603: page = await context.new_page()
NewPage(t) ==
    /\ \E name \in {"new_tab", "tab_close"} : InPhase(t, name, "new_page")
    /\ LET f == Top(t)
           c == ContextOf(f.act.page)
       IN
       /\ created[c] < TabLimit(c)
       /\ created' = [created EXCEPT ![c] = @ + 1]
       /\ tabs' = [tabs EXCEPT ![c] = Append(@, created[c] + 1)]
       /\ stack' = WithTop(t, [f EXCEPT !.act.phase = "evaluate",
                                        !.act.target = PageOf(c, created[c] + 1)])
    /\ UNCHANGED <<aux, ctxStore, calls, effects, last>>

Without(seq, x) == SelectSeq(seq, LAMBDA y : y # x)

\* context.pages[-1]: the last page of the list, the most recently created.
Oldest(pages) == pages[1]
MostRecent(pages) == pages[Len(pages)]

\* tab_close lines 597-603: await page.close(), then pick the last open tab
\* of the context, or go on to open a new one.
ClosePage(t) ==
    /\ InPhase(t, "tab_close", "close")
    /\ LET f == Top(t)
           c == ContextOf(f.act.page)
           pages == Without(tabs[c], f.act.page[2])
       IN
       /\ tabs' = [tabs EXCEPT ![c] = pages]
       /\ stack' = WithTop(t,
            IF pages # <<>>
            THEN [f EXCEPT !.act.phase = "evaluate",
                           !.act.target = PageOf(c, MostRecent(pages))]
            ELSE [f EXCEPT !.act.phase = "new_page"])
    /\ UNCHANGED <<aux, ctxStore, calls, created, effects, last>>

\* tab_focus line 628: await page.bring_to_front()
BringToFront(t) ==
    /\ InPhase(t, "tab_focus", "bring_to_front")
    /\ stack' = WithTop(t, [Top(t) EXCEPT !.act.phase = "evaluate"])
    /\ UNCHANGED <<aux, ctxStore, calls, tabs, created, effects, last>>

\* page_ctx.set(page), in the context the action runs in.
PageCtxSetSkipped(t, page) == ctxStore
PageCtxSetClobbers(t, page) ==
    [ctxStore EXCEPT ![t].page = Val(page), ![t].retry = Val(FALSE),
                     ![t].demo = Val("off")]
PageCtxSet(t, page) == [ctxStore EXCEPT ![RunContext(t)].page = Val(page)]

\* await page.evaluate(pageshow); page_ctx.set(page)
Evaluate(t, ok) ==
    /\ \E name \in TabActions : InPhase(t, name, "evaluate")
    /\ LET f == Top(t)
       IN
       IF ok
       THEN /\ ctxStore' = PageCtxSet(t, f.act.target)
            /\ stack' = WithTop(t, Complete([f EXCEPT !.active = f.act.target]))
       ELSE /\ stack' = WithTop(t, Fail(f, "evaluate"))
            /\ UNCHANGED ctxStore
    /\ UNCHANGED <<aux, calls, tabs, created, effects, last>>

\* ------------------------------------------------------ end of a call
\* The frame is popped and its outcome delivered to whoever awaited it: the
\* task, or the callback of the frame below, which is still being awaited.
Finish(t, result, err) ==
    LET f == Top(t)
        rest == Popped(t)
    IN
    /\ stack' = [stack EXCEPT ![t] =
          IF rest = <<>> THEN rest
          ELSE [rest EXCEPT ![Len(rest)] = [@ EXCEPT !.nested = TRUE]]]
    /\ last' = [last EXCEPT ![t] =
          [kind |-> f.kind, result |-> result, err |-> err,
           started |-> f.started,
           pending |-> f.act.phase \notin {"none", "done", "failed"},
           left |-> Cardinality({i \in DOMAIN f.code :
                                    i > f.pc /\ f.code[i] = Call})
                    - (IF Idle(f) THEN 0 ELSE 1),
           unhandled |-> f.unhandled + (IF result = "raised" THEN 1 ELSE 0)]]

\* An action raised inside __user_code_main__: a try/except of the agent code
\* around the call handles it, or it leaves the coroutine awaited on line 112.
SwallowFailure(kind, handled) == "continue"
AfterFailure(kind, handled) ==
    IF kind = "exec" /\ handled THEN "continue" ELSE "raise"

Propagate(t, handled) ==
    /\ stack[t] # <<>>
    /\ Top(t).act.phase = "failed"
    /\ LET f == Top(t)
       IN
       IF AfterFailure(f.kind, handled) = "continue"
       THEN /\ stack' = WithTop(t, [f EXCEPT !.act = NoAct,
                                             !.pc = NextCallLine(f.code, f.pc),
                                             !.unhandled = IF handled THEN @ ELSE @ + 1])
            /\ UNCHANGED last
       ELSE Finish(t, "raised", f.act.err)
    /\ UNCHANGED <<aux, ctxStore, calls, tabs, created, effects>>

\* await namespace["__user_code_result__"] (line 112) returns when the code
\* has run past its last line; a bare action returns when it completes.
ReturnEarly(f) == TRUE
CodeDone(f) == Idle(f) /\ NextCallLine(f.code, f.pc) > Len(f.code)

Return(t) ==
    /\ stack[t] # <<>>
    /\ Top(t).act.phase # "failed"
    /\ CodeDone(Top(t))
    /\ Finish(t, "returned", "none")
    /\ UNCHANGED <<aux, ctxStore, calls, tabs, created, effects>>

\* ------------------------------------------------ the body of each action
\* One catalog action of functions.py followed statement by statement.  The
\* values its ContextVar.get() calls return (demo mode, retry flag) and its
\* arguments are inputs; every awaited call of the page collaborator succeeds
\* or raises.
DemoModes == {"off", "default", "all_blue", "only_visible_elements"}
Buttons == {"left", "right"}
TextLengths == (0..MaxTextLen) \cup {LongTextLen}
FileLists == SeqsUpTo({"file"}, MaxFiles)

RetryActions == {"click", "dblclick", "hover", "check", "uncheck", "fill", "select_option"}
PlainElementActions == {"press", "focus", "clear", "drag_and_drop"}
CoordinateActions == {"mouse_move", "mouse_click", "mouse_dblclick", "mouse_up", "mouse_down"}
TextActions == {"fill", "keyboard_type"}
UploadActions == {"upload_file", "mouse_upload_file"}
ButtonActions == {"click", "dblclick", "mouse_click", "mouse_dblclick", "mouse_up", "mouse_down"}
CatalogActions ==
    RetryActions \cup PlainElementActions \cup CoordinateActions
        \cup TextActions \cup UploadActions

\* A statement of an action body and an event of its trace.
St(stmt, op) == [stmt |-> stmt, op |-> op, move_cursor |-> FALSE, highlight_box |-> FALSE]
Effects(move_cursor, highlight_box) ==
    [stmt |-> "effects", op |-> "none", move_cursor |-> move_cursor,
     highlight_box |-> highlight_box]
Event(ev, force, outcome, arg) == [ev |-> ev, force |-> force, outcome |-> outcome, arg |-> arg]

\* if demo_mode != "off": await smooth_move_visual_cursor_to(page, x, y), and
\* for all coordinate actions but mouse_move, await highlight_by_box(page, ...)
DirectEffectsAlways(demo_mode, highlight) ==
    <<St("cursor", "none")>> \o (IF highlight THEN <<St("highlight", "none")>> ELSE <<>>)
DirectEffects(demo_mode, highlight) ==
    IF demo_mode # "off"
    THEN <<St("cursor", "none")>> \o (IF highlight THEN <<St("highlight", "none")>> ELSE <<>>)
    ELSE <<>>

\* resolve the element, decorate, then call_fun(do, retry_with_force)
ViaCallFun(move_cursor, highlight_box, op) ==
    <<St("resolve", "none"), Effects(move_cursor, highlight_box), St("call_fun", op)>>
\* resolve the element, decorate, then await the operation itself
Direct(move_cursor, highlight_box, op) ==
    <<St("resolve", "none"), Effects(move_cursor, highlight_box), St("op", op)>>

\* with page.expect_file_chooser() as fc_info: await <click>
\* file_chooser = fc_info.value; await file_chooser.set_files(file)
Upload(click) == <<St("with", "page.expect_file_chooser"), St("op", click), St("op", "file_chooser.set_files")>>

Body(name, demo_mode) ==
    CASE name = "click" -> ViaCallFun(TRUE, TRUE, "elem.click")
      [] name = "dblclick" -> ViaCallFun(TRUE, TRUE, "elem.click")
      [] name = "hover" -> ViaCallFun(TRUE, FALSE, "elem.hover")
      [] name = "check" -> ViaCallFun(TRUE, TRUE, "elem.check")
      [] name = "uncheck" -> ViaCallFun(TRUE, TRUE, "elem.uncheck")
      [] name = "fill" -> ViaCallFun(FALSE, TRUE, "fill.do")
      [] name = "select_option" -> ViaCallFun(FALSE, TRUE, "elem.select_option")
      [] name = "press" -> Direct(FALSE, TRUE, "elem.press")
      [] name = "focus" -> Direct(FALSE, TRUE, "elem.focus")
      [] name = "clear" -> Direct(FALSE, TRUE, "elem.clear")
      [] name = "drag_and_drop" ->
            Direct(TRUE, TRUE, "elem.hover") \o <<St("op", "page.mouse.down")>>
                \o Direct(TRUE, TRUE, "elem.hover") \o <<St("op", "page.mouse.up")>>
      [] name = "mouse_move" ->
            DirectEffects(demo_mode, FALSE) \o <<St("op", "page.mouse.move")>>
      [] name = "mouse_up" ->
            DirectEffects(demo_mode, TRUE)
                \o <<St("op", "page.mouse.move"), St("op", "page.mouse.up")>>
      [] name = "mouse_down" ->
            DirectEffects(demo_mode, TRUE)
                \o <<St("op", "page.mouse.move"), St("op", "page.mouse.down")>>
      [] name = "mouse_click" ->
            DirectEffects(demo_mode, TRUE) \o <<St("op", "page.mouse.click")>>
      [] name = "mouse_dblclick" ->
            DirectEffects(demo_mode, TRUE) \o <<St("op", "page.mouse.dblclick")>>
      [] name = "keyboard_type" -> <<St("op", "page.keyboard.type")>>
      [] name = "upload_file" ->
            <<St("resolve", "none"), Effects(TRUE, TRUE)>> \o Upload("elem.click")
      [] name = "mouse_upload_file" ->
            DirectEffects(demo_mode, TRUE) \o Upload("page.mouse.click")

\* max(2000 / len(text), 10) as a fraction <<numerator, denominator>>; the
\* division raises ZeroDivisionError for an empty text.
DivisionFails(len) == len = 0
TypingDelay(len) ==
    IF TypingBudgetMs >= MinDelayMs * len THEN <<TypingBudgetMs, len>> ELSE <<MinDelayMs, 1>>

\* Whether an operation computes the typing delay before anything else:
\* keyboard_type and the do of fill, when demo_mode is not "off".
ComputesDelay(op, demo_mode) == op \in {"page.keyboard.type", "fill.do"} /\ demo_mode # "off"

NoInv == [name |-> "none", demo_mode |-> "off", retry_with_force |-> FALSE,
          button |-> "left", len |-> 1, file |-> <<>>,
          pc |-> 1, trace |-> <<>>, status |-> "idle", err |-> "none"]

Stmt == Body(inv.name, inv.demo_mode)[inv.pc]
At(stmt) ==
    /\ inv.status = "running"
    /\ inv.pc <= Len(Body(inv.name, inv.demo_mode))
    /\ Stmt.stmt = stmt

Logged(e) == [inv EXCEPT !.trace = Append(@, e)]
Advance(r) ==
    [r EXCEPT !.pc = @ + 1,
              !.status = IF r.pc = Len(Body(r.name, r.demo_mode)) THEN "done" ELSE @]
Raise(r, err) == [r EXCEPT !.status = "failed", !.err = err]

\* The arguments an operation is called with.
Arg(name, op) ==
    CASE op \in {"elem.click", "page.mouse.click", "page.mouse.dblclick"}
             /\ name \in ButtonActions -> <<inv.button>>
      [] op \in {"page.mouse.up", "page.mouse.down"} /\ name \in ButtonActions -> <<inv.button>>
      [] op = "file_chooser.set_files" -> inv.file
      [] op = "page.keyboard.type" ->
            IF inv.demo_mode # "off" THEN TypingDelay(inv.len) ELSE <<>>
      [] OTHER -> <<>>

\* The call of an action with the values its ContextVar.get() calls return.
Invoke(name, demo_mode, retry_with_force, button, len, file) ==
    /\ inv.status # "running"
    /\ name \in ButtonActions \/ button = "left"
    /\ name \in TextActions \/ len = 1
    /\ name \in UploadActions \/ file = <<>>
    /\ name \in RetryActions \/ retry_with_force = FALSE \/ name \in PlainElementActions
    /\ inv' = [NoInv EXCEPT !.name = name, !.demo_mode = demo_mode,
                            !.retry_with_force = retry_with_force,
                            !.button = button, !.len = len, !.file = file,
                            !.status = "running"]
    /\ UNCHANGED <<coreVars, engineVars, nsVars>>

\* elem = await get_elem_by_bid(page, bid, demo_mode != "off")
GetElemByBid(found) ==
    /\ At("resolve")
    /\ inv' = IF found THEN Advance(Logged(Event("get_elem_by_bid", Unset, "ok", <<>>)))
              ELSE Raise(inv, "ElementNotFound")
    /\ UNCHANGED <<coreVars, engineVars, nsVars>>

\* await add_demo_mode_effects(page, elem, bid, demo_mode, move_cursor,
\* highlight_box): nothing when demo_mode is "off"; else the cursor animation
\* if move_cursor and the box highlight if highlight_box, whose failures are
\* logged and do not reach the action.
AddDemoModeEffects(outcome) ==
    /\ At("effects")
    /\ LET cursor == IF inv.demo_mode # "off" /\ Stmt.move_cursor
                     THEN <<Event("smooth_move_visual_cursor_to", Unset, outcome, <<>>)>>
                     ELSE <<>>
           box == IF inv.demo_mode # "off" /\ Stmt.highlight_box
                  THEN <<Event("highlight_by_box", Unset, outcome, <<>>)>>
                  ELSE <<>>
       IN  inv' = Advance([inv EXCEPT !.trace = @ \o cursor \o box])
    /\ UNCHANGED <<coreVars, engineVars, nsVars>>

\* A coordinate action awaits smooth_move_visual_cursor_to or highlight_by_box
\* itself, outside any try.
AfterEffect(r, outcome) == IF outcome = "ok" THEN Advance(r) ELSE Raise(r, "effect")

DirectEffect(outcome) ==
    /\ At("cursor") \/ At("highlight")
    /\ outcome \in {"ok", "other"}
    /\ LET ev == IF Stmt.stmt = "cursor" THEN "smooth_move_visual_cursor_to"
                 ELSE "highlight_by_box"
       IN  inv' = AfterEffect(Logged(Event(ev, Unset, outcome, <<>>)), outcome)
    /\ UNCHANGED <<coreVars, engineVars, nsVars>>

\* The events of one do(force) of an action routed through call_fun: fill
\* types the text in demo mode (clear, then type with the delay) and fills it
\* otherwise; the other actions make the one call of their operation.
Do(op, force, outcome) ==
    IF op = "fill.do"
    THEN IF inv.demo_mode # "off"
         THEN <<Event("elem.clear", Val(force), outcome, <<>>)>>
                \o (IF outcome = "ok"
                    THEN <<Event("elem.type", Unset, "ok", TypingDelay(inv.len))>>
                    ELSE <<>>)
         ELSE <<Event("elem.fill", Val(force), outcome, <<>>)>>
    ELSE <<Event(op, Val(force), outcome, Arg(inv.name, op))>>

\* call_fun(do, retry_with_force, sync=False): do(force=False)
CallFunAttempt(outcome) ==
    /\ At("call_fun")
    /\ \A i \in DOMAIN inv.trace : inv.trace[i].force = Unset
    /\ IF ComputesDelay(Stmt.op, inv.demo_mode) /\ DivisionFails(inv.len)
       THEN inv' = Raise(inv, "ZeroDivisionError")
       ELSE LET r == [inv EXCEPT !.trace = @ \o Do(Stmt.op, FALSE, outcome)]
                next == CallFun(outcome, inv.retry_with_force)
            IN  inv' = CASE next = "done" -> Advance(r)
                         [] next = "retry" -> r
                         [] OTHER -> Raise(r, outcome)
    /\ UNCHANGED <<coreVars, engineVars, nsVars>>

\* call_fun: do(force=True) after a recoverable failure of the first attempt
CallFunForced(outcome) ==
    /\ At("call_fun")
    /\ \E i \in DOMAIN inv.trace : inv.trace[i].force = Val(FALSE)
    /\ LET r == [inv EXCEPT !.trace = @ \o Do(Stmt.op, TRUE, outcome)]
       IN  inv' = IF outcome = "ok" THEN Advance(r) ELSE Raise(r, outcome)
    /\ UNCHANGED <<coreVars, engineVars, nsVars>>

\* An operation the action awaits itself, with no force argument.
Operate(outcome) ==
    /\ At("op")
    /\ IF ComputesDelay(Stmt.op, inv.demo_mode) /\ DivisionFails(inv.len)
       THEN inv' = Raise(inv, "ZeroDivisionError")
       ELSE LET r == Logged(Event(Stmt.op, Unset, outcome, Arg(inv.name, Stmt.op)))
            IN  inv' = IF outcome = "ok" THEN Advance(r) ELSE Raise(r, outcome)
    /\ UNCHANGED <<coreVars, engineVars, nsVars>>

\* with page.expect_file_chooser() as fc_info: the object returned by the
\* async API has __aenter__ and __aexit__ only, so the with statement raises
\* before its body runs.
SyncWith ==
    /\ At("with")
    /\ inv' = Raise(Logged(Event(Stmt.op, Unset, "ok", <<>>)), "TypeError")
    /\ UNCHANGED <<coreVars, engineVars, nsVars>>


\* ------------------------------------------- the global playwright instance
\* browsergym/async_core/__init__.py.  None is <<>>; an instance is
\* <<"installed", 0>> (given to _set_global_playwright by the test fixture) or
\* <<"started", n>> (the n-th engine started by async_playwright().start()).
Getters == 1..MaxGetters
NoGetter == [pc |-> "idle", pw |-> <<>>, result |-> <<>>]

\* if not _PLAYWRIGHT
NotSet(global) == global = <<>>

\* setup_playwright: _set_global_playwright(playwright), ahead of the first
\* test, so before any caller of _get_global_playwright.
SetGlobalPlaywright ==
    /\ PLAYWRIGHT = <<>>
    /\ started = 0
    /\ \A g \in Getters : getters[g].pc = "idle"
    /\ PLAYWRIGHT' = <<"installed", 0>>
    /\ UNCHANGED <<coreVars, catalogVars, nsVars, started, getters>>

\* _get_global_playwright up to its first suspension: with no instance set
\* the caller starts an engine and suspends in the await of line 17; else it
\* returns the instance.
GetGlobalPlaywright(g) ==
    /\ getters[g].pc = "idle"
    /\ IF NotSet(PLAYWRIGHT)
       THEN /\ started' = started + 1
            /\ getters' = [getters EXCEPT ![g] = [pc |-> "starting",
                                                  pw |-> <<"started", started + 1>>,
                                                  result |-> <<>>]]
       ELSE /\ getters' = [getters EXCEPT ![g] = [pc |-> "done", pw |-> <<>>,
                                                  result |-> PLAYWRIGHT]]
            /\ UNCHANGED started
    /\ UNCHANGED <<coreVars, catalogVars, nsVars, PLAYWRIGHT>>

\* The engine has started: _set_global_playwright(pw); return _PLAYWRIGHT
EngineStarted(g) ==
    /\ getters[g].pc = "starting"
    /\ PLAYWRIGHT' = getters[g].pw
    /\ getters' = [getters EXCEPT ![g] = [@ EXCEPT !.pc = "done", !.result = PLAYWRIGHT']]
    /\ UNCHANGED <<coreVars, catalogVars, nsVars, started>>

\* A caller that has its instance calls _get_global_playwright again.
CallAgain(g) ==
    /\ getters[g].pc = "done"
    /\ getters' = [getters EXCEPT ![g] = NoGetter]
    /\ UNCHANGED <<coreVars, catalogVars, nsVars, PLAYWRIGHT, started>>


\* ------------------------------------------------- the namespace template
\* base.py lines 63-83 and 103-111.  Dictionary 0 is the __dict__ of the
\* cached module; an invocation's namespace is a dictionary of its own.  A
\* name is bound to a catalog function, to a value of the code of invocation
\* i, or not bound.
Invocations == 1..MaxInvocations
Names == {"click", "x", "__user_code_main__"}
Absent == <<"absent">>
CatalogFunction == <<"catalog">>
UserValue(i) == <<"code", i>>
EmptyDict == [n \in Names |-> Absent]
NoRun == [pc |-> "idle", namespace |-> <<>>, bound |-> <<>>]

\* Lines 64-83: the public callables of functions and utils.
CatalogBindings == [n \in Names |-> IF n = "click" THEN CatalogFunction ELSE Absent]

\* namespace = _ACTION_EXEC_MODULE.__dict__.copy(): a new dictionary.
TemplateItself(i) == 0
NamespaceOf(i) == i

\* execute_python_code up to the await of line 112, which nothing interrupts:
\* the template is built if _ACTION_EXEC_MODULE is None, the context values
\* are bound, the template is copied and exec binds __user_code_main__ in
\* the copy.
ExecuteCode(i) ==
    /\ runs[i].pc = "idle"
    /\ LET template == IF ACTION_EXEC_MODULE = <<>> THEN CatalogBindings ELSE dicts[0]
           d == NamespaceOf(i)
           copied == [[dicts EXCEPT ![0] = template] EXCEPT ![d] = template]
       IN  /\ built' = IF ACTION_EXEC_MODULE = <<>> THEN built + 1 ELSE built
           /\ ACTION_EXEC_MODULE' = <<0>>
           /\ dicts' = [copied EXCEPT ![d]["__user_code_main__"] = UserValue(i)]
           /\ runs' = [runs EXCEPT ![i] = [pc |-> "running", namespace |-> <<d>>,
                                           bound |-> <<i>>]]
    /\ UNCHANGED <<coreVars, catalogVars, engineVars>>

\* The code defines or rebinds a global name: global <name>; <name> = ...
Assign(i, name) ==
    /\ runs[i].pc = "running"
    /\ name # "__user_code_main__"
    /\ dicts' = [dicts EXCEPT ![Get(runs[i].namespace)][name] = UserValue(i)]
    /\ UNCHANGED <<coreVars, catalogVars, engineVars, ACTION_EXEC_MODULE, built, runs>>

\* The code ends and execute_python_code returns.
ReturnCode(i) ==
    /\ runs[i].pc = "running"
    /\ runs' = [runs EXCEPT ![i].pc = "done"]
    /\ UNCHANGED <<coreVars, catalogVars, engineVars, ACTION_EXEC_MODULE, built, dicts>>


Init ==
    /\ ctxStore = [t \in Tasks |-> UnsetCtx]
    /\ stack = [t \in Tasks |-> <<>>]
    /\ calls = [t \in Tasks |-> 0]
    /\ tabs = [t \in Tasks |-> <<1>>]
    /\ created = [t \in Tasks |-> 1]
    /\ effects = [t \in Tasks |-> 0]
    /\ last = [t \in Tasks |-> NoLast]
    /\ inv = NoInv
    /\ PLAYWRIGHT = <<>>
    /\ started = 0
    /\ getters = [g \in Getters |-> NoGetter]
    /\ ACTION_EXEC_MODULE = <<>>
    /\ built = 0
    /\ dicts = [d \in 0..MaxInvocations |-> EmptyDict]
    /\ runs = [i \in Invocations |-> NoRun]

Indexes == 0..MaxTabs
Pages == UNION {{PageOf(c, n) : n \in 1..TabLimit(c)} : c \in Tasks}

Step(t) ==
    \/ \E name \in ActionNames, index \in Indexes : Begin(t, name, index)
    \/ \E found \in BOOLEAN : Resolve(t, found)
    \/ \E outcome \in Outcomes : Attempt(t, outcome)
    \/ \E outcome \in Outcomes : Forced(t, outcome)
    \/ \E ok \in BOOLEAN : PageOp(t, ok)
    \/ \E ok \in BOOLEAN : CallbackReturn(t, ok)
    \/ NewPage(t)
    \/ ClosePage(t)
    \/ BringToFront(t)
    \/ \E ok \in BOOLEAN : Evaluate(t, ok)
    \/ \E handled \in BOOLEAN : Propagate(t, handled)
    \/ Return(t)

\* Two independent asyncio tasks (run_multiple_tests_concurrently: create_task
\* and gather), each awaiting one execute_python_code call; their steps
\* interleave at every await.
Launch(t, code, page, flag) == calls[t] = 0 /\ Execute(t, code, page, flag)

Next ==
    \/ \E t \in Tasks, code \in Codes, page \in Pages, flag \in BOOLEAN :
          Launch(t, code, page, flag)
    \/ \E t \in Tasks : Step(t)

Spec == Init /\ [][Next]_vars

\* One task awaiting its calls one after the other: execute_python_code, or a
\* catalog action called outside of it.
NextSequential ==
    \/ \E code \in Codes, page \in Pages, flag \in BOOLEAN :
          Execute(1, code, page, flag)
    \/ DirectCall(1)
    \/ Step(1)

SpecSequential == Init /\ [][NextSequential]_vars

\* One task whose send_message_to_user callback may itself await
\* execute_python_code.
NextNested ==
    \/ \E code \in Codes, page \in Pages, flag \in BOOLEAN :
          Execute(1, code, page, flag)
    \/ \E code \in Codes, page \in Pages, flag \in BOOLEAN :
          CallbackExecute(1, code, page, flag)
    \/ Step(1)

SpecNested == Init /\ [][NextNested]_vars

\* One task calling catalog actions one after the other, each followed
\* through its body.
NextCatalog ==
    \/ \E name \in CatalogActions, demo_mode \in DemoModes, retry_with_force \in BOOLEAN,
          button \in Buttons, len \in TextLengths, file \in FileLists :
          Invoke(name, demo_mode, retry_with_force, button, len, file)
    \/ \E found \in BOOLEAN : GetElemByBid(found)
    \/ \E outcome \in {"ok", "other"} : AddDemoModeEffects(outcome)
    \/ \E outcome \in Outcomes : DirectEffect(outcome)
    \/ \E outcome \in Outcomes : CallFunAttempt(outcome)
    \/ \E outcome \in Outcomes : CallFunForced(outcome)
    \/ \E outcome \in Outcomes : Operate(outcome)
    \/ SyncWith

SpecCatalog == Init /\ [][NextCatalog]_vars

\* Concurrent callers of _get_global_playwright, interleaved at the await.
NextPlaywright ==
    \/ SetGlobalPlaywright
    \/ \E g \in Getters : GetGlobalPlaywright(g)
    \/ \E g \in Getters : EngineStarted(g)
    \/ \E g \in Getters : CallAgain(g)

SpecPlaywright == Init /\ [][NextPlaywright]_vars

\* execute_python_code invocations of one process, interleaved at the awaits
\* of their code.
NextNamespace ==
    \/ \E i \in Invocations : ExecuteCode(i)
    \/ \E i \in Invocations, name \in Names : Assign(i, name)
    \/ \E i \in Invocations : ReturnCode(i)

SpecNamespace == Init /\ [][NextNamespace]_vars

\* ------------------------------------------------------------- properties
InFlight(t) == stack[t] # <<>>
Acting(t) == InFlight(t) /\ Top(t).act.phase \notin {"none", "done", "failed"}

\* What the action of the running call resolved is the call's own: the page
\* it was bound to or last set itself, its callback, retry flag and demo mode.
ResolvesOwn(f) ==
    (f.act.phase # "none" /\ f.act.err # "LookupError") =>
        /\ ("page" \in Reads(f.act.name) /\ f.act.phase # "done")
              => f.act.page = f.active
        /\ "smu" \in Reads(f.act.name) => f.act.cb = f.id
        /\ "retry" \in Reads(f.act.name) => f.act.retry = f.retry_with_force
        /\ "demo" \in Reads(f.act.name) => f.act.demo = f.demo_mode

\* C1: with two execute_python_code calls running concurrently in independent
\* tasks, on different pages and with different callbacks, every catalog action
\* of a call resolves that call's own page, callback, retry flag and demo mode,
\* and nothing that belongs to the other task, in every interleaving.
C1_TaskIsolation ==
    \A t \in Tasks :
        InFlight(t) =>
            /\ ResolvesOwn(Top(t))
            /\ Top(t).act.phase # "none" =>
                  /\ "page" \in Reads(Top(t).act.name) => ContextOf(Top(t).act.page) = t
                  /\ "smu" \in Reads(Top(t).act.name) => Top(t).act.cb[1] = t

\* Both calls are in the middle of a click, having resolved different retry
\* flags and demo modes, each its own.
C1_Witness ==
    /\ InFlight(1) /\ InFlight(2)
    /\ Top(1).act.name = "click" /\ Top(1).act.phase = "attempt"
    /\ Top(2).act.name = "click" /\ Top(2).act.phase = "attempt"
    /\ Top(1).act.retry /\ ~Top(2).act.retry
    /\ Top(1).act.demo = "off" /\ Top(2).act.demo = "default"
    /\ Top(1).act.page # Top(2).act.page

\* C2: a page written by a tab action of a call is what the later actions of
\* that call resolve, and is never seen in another task: the page a task
\* resolves is always the one its own call was bound to or last set itself.
C2_PageWrites ==
    \A t \in Tasks :
        InFlight(t) =>
            /\ ctxStore[RunContext(t)].page = Val(Top(t).active)
            /\ ContextOf(Top(t).active) = t
            /\ Acting(t) /\ "page" \in Reads(Top(t).act.name)
                  => Top(t).act.page = Top(t).active

\* Task 1 opened a tab and its next action resolved the new page, while the
\* call of task 2 is in the middle of an action on the page it was bound to.
C2_Witness ==
    /\ InFlight(1) /\ InFlight(2)
    /\ Top(1).active # Top(1).page
    /\ Top(1).act.name = "click" /\ Top(1).act.phase = "attempt"
    /\ Top(1).act.page = Top(1).active
    /\ Top(2).act.name = "click" /\ Top(2).act.phase = "attempt"
    /\ Top(2).act.page = Top(2).page

\* C3: after a call started and awaited inside another call of the same task
\* has completed, the actions of the outer call still resolve the outer
\* call's page, callback, retry flag and demo mode.
C3_NestedIsolation ==
    \A t \in Tasks : InFlight(t) /\ Top(t).nested => ResolvesOwn(Top(t))

\* C4: when execute_python_code returns or raises, the variables of the
\* calling task's context resolve as before the call: one that held no value
\* before the call holds none after it.
C4_ContextDiscarded ==
    [][\A t \in Tasks :
          (InFlight(t) /\ Top(t).kind = "exec" /\ Len(stack'[t]) < Len(stack[t]))
              => Bound(ctxStore'[RunContext(t)]) = Top(t).ctx]_vars

\* C5: a catalog action called outside every execute_python_code call fails
\* with the lookup error of an unset context variable, before any page
\* operation and before any callback is called, also after earlier calls of
\* the task have completed.
C5_OutsideFails ==
    \A t \in Tasks :
        (InFlight(t) /\ Top(t).kind = "direct" /\ Top(t).act.phase # "none")
            => Top(t).act.phase = "failed" /\ Top(t).act.err = "LookupError"

\* The code text contains the marker line.
MarkerIn(code) == Cardinality({i \in DOMAIN code : code[i] = Marker}) >= 1

ElementAction(t) ==
    /\ InFlight(t)
    /\ Top(t).kind = "exec"
    /\ Top(t).act.name \in ElementActions
    /\ Top(t).act.attempts # <<>>

\* C6: an element action whose operation fails with an actionability error
\* when called with force=False is, when the submitted code contains the
\* marker, called a second time with force=True, and the action succeeds if
\* that call does; without the marker it is called once and the action fails
\* with that error.
C6_ForceRetry ==
    \A t \in Tasks :
        LET a == Top(t).act
        IN  (ElementAction(t) /\ a.attempts[1].outcome = "actionability") =>
                /\ ~a.attempts[1].force
                /\ IF MarkerIn(Top(t).code)
                   THEN \/ Len(a.attempts) = 1 /\ a.phase = "forced"
                        \/ /\ Len(a.attempts) = 2
                           /\ a.attempts[2].force
                           /\ a.attempts[2].outcome = "ok" => a.phase = "done"
                   ELSE /\ Len(a.attempts) = 1
                        /\ a.phase = "failed"
                        /\ a.err = "actionability"

\* A click of code with the marker failed unforced, was retried with force
\* and completed.
C6_Witness ==
    /\ ElementAction(1)
    /\ MarkerIn(Top(1).code)
    /\ Top(1).act.attempts = <<[force |-> FALSE, outcome |-> "actionability"],
                               [force |-> TRUE, outcome |-> "ok"]>>
    /\ Top(1).act.phase = "done"

\* C7: the operation of an element action is called at most twice; a failure
\* of the forced call is the failure of the action, with no third call; a
\* failure of the first call that is no actionability error is the failure of
\* the action, with no forced call, whether or not the marker is present.
C7_AtMostTwice ==
    \A t \in Tasks :
        LET a == Top(t).act
        IN  ElementAction(t) =>
                /\ Len(a.attempts) <= 2
                /\ Len(a.attempts) = 2 =>
                      /\ a.attempts[1] = [force |-> FALSE, outcome |-> "actionability"]
                      /\ a.attempts[2].force
                /\ (Len(a.attempts) = 2 /\ a.attempts[2].outcome # "ok") =>
                      a.phase = "failed" /\ a.err = a.attempts[2].outcome
                /\ a.attempts[1].outcome \notin {"ok", "actionability"} =>
                      /\ Len(a.attempts) = 1
                      /\ a.phase = "failed"
                      /\ a.err = a.attempts[1].outcome

\* With the marker present, the forced retry of a click failed and the click
\* failed with that error after two calls.
C7_Witness ==
    /\ ElementAction(1)
    /\ MarkerIn(Top(1).code)
    /\ Len(Top(1).act.attempts) = 2
    /\ Top(1).act.attempts[2].outcome = "other"
    /\ Top(1).act.phase = "failed"
    /\ Top(1).act.err = "other"

\* C8: throughout a call the retry flag of the context is true exactly if the
\* code text contains the marker, and the retry flag, the demo mode and the
\* two callbacks stay as bound at the start of the call: the actions write
\* the page only.
C8_FlagFixed ==
    \A t \in Tasks :
        (InFlight(t) /\ Top(t).kind = "exec") =>
            LET c == ctxStore[RunContext(t)]
            IN  /\ c.retry = Val(MarkerIn(Top(t).code))
                /\ c.demo = Val(Top(t).demo_mode)
                /\ c.smu = Val(Top(t).id)
                /\ c.rii = Val(Top(t).id)

\* A tab action of code with the marker has replaced the page of the context.
C8_Witness ==
    /\ InFlight(1)
    /\ Top(1).kind = "exec"
    /\ MarkerIn(Top(1).code)
    /\ Top(1).act.name \in TabActions
    /\ Top(1).act.phase = "done"
    /\ ctxStore[1].page # Val(Top(1).page)

\* C9: when execute_python_code returns normally, no action of the code is
\* pending and none was left unstarted.
C9_RunsToCompletion ==
    \A t \in Tasks :
        (last[t].kind = "exec" /\ last[t].result = "returned") =>
            ~last[t].pending /\ last[t].left = 0

\* A call returned after its code had run two actions.
C9_Witness ==
    /\ last[1].kind = "exec"
    /\ last[1].result = "returned"
    /\ last[1].started >= 2

\* The step on which a failure leaves execute_python_code.
Raises(t) ==
    /\ InFlight(t)
    /\ Top(t).kind = "exec"
    /\ Top(t).act.phase = "failed"
    /\ Len(stack'[t]) < Len(stack[t])

\* C10: a failure of an action that the code does not handle ends the call
\* with that one failure: no call goes on after it, so no later action is
\* started, and the step that raises leaves the tabs and the effects applied
\* to the pages as they are.
C10_FailureStops ==
    /\ [](\A t \in Tasks :
            /\ \A i \in DOMAIN stack[t] : stack[t][i].unhandled = 0
            /\ (last[t].kind = "exec" /\ last[t].result = "raised") =>
                  /\ last[t].unhandled = 1
                  /\ last[t].err # "none"
                  /\ ~last[t].pending)
    /\ [][\A t \in Tasks : Raises(t) => UNCHANGED <<tabs, created, effects>>]_vars

\* The first of two actions, a new_tab, failed after it had opened the tab:
\* the call raised, the second action was never started and the tab is open.
C10_Witness ==
    /\ last[1].kind = "exec"
    /\ last[1].result = "raised"
    /\ last[1].err = "evaluate"
    /\ last[1].started = 1
    /\ last[1].left = 1
    /\ Len(tabs[1]) = 2

\* The tab action of the running call, by name and phase.
TabAction(t, name, phase) == InFlight(t) /\ InPhase(t, name, phase)

\* C11: when tab_close returns, the page it was called on is closed, the tab
\* list is not empty and its last tab, the most recently created one still
\* open, is the active page; a tab is created by tab_close only when the close
\* left no tab open, and then exactly one, which becomes the only tab.
C11_TabClose ==
    /\ [](\A t \in Tasks :
            TabAction(t, "tab_close", "done") =>
                LET f == Top(t)
                    c == ContextOf(f.act.page)
                IN  /\ ~IsOpen(f.act.page)
                    /\ tabs[c] # <<>>
                    /\ f.act.target = PageOf(c, tabs[c][Len(tabs[c])])
                    /\ \A i \in DOMAIN tabs[c] : tabs[c][i] <= f.act.target[2]
                    /\ ctxStore[RunContext(t)].page = Val(f.act.target))
    /\ [][\A t \in Tasks :
            /\ (TabAction(t, "tab_close", "new_page") /\ created' # created) =>
                  LET c == ContextOf(Top(t).act.page)
                  IN  /\ tabs[c] = <<>>
                      /\ created'[c] = created[c] + 1
                      /\ tabs'[c] = <<created'[c]>>
            /\ (TabAction(t, "tab_close", "close") /\ stack' # stack) =>
                  LET c == ContextOf(Top(t).act.page)
                  IN  /\ created' = created
                      /\ (tabs'[c] # <<>>) => Top(t)'.act.phase = "evaluate"]_vars

\* With three tabs open tab_close closed the first one: the third tab, the
\* most recently created of the two that remain, is the active page.
C11_Witness ==
    /\ TabAction(1, "tab_close", "done")
    /\ Top(1).act.page = PageOf(1, 1)
    /\ tabs[1] = <<2, 3>>
    /\ Top(1).active = PageOf(1, 3)

\* C12: once new_tab is over, returned or raised, and has added a tab to the
\* tab list, the active page that the following actions of the call resolve
\* is that new tab.
C12_NewTabActive ==
    \A t \in Tasks :
        (/\ InFlight(t)
         /\ Top(t).act.name = "new_tab"
         /\ Top(t).act.phase \in {"done", "failed"}
         /\ Top(t).act.target # NoPage
         /\ IsOpen(Top(t).act.target))
            => ctxStore[RunContext(t)].page = Val(Top(t).act.target)

\* ------------------------------------------- properties of action bodies
CursorEvents == {i \in DOMAIN inv.trace : inv.trace[i].ev = "smooth_move_visual_cursor_to"}
EffectEvents ==
    {i \in DOMAIN inv.trace :
        inv.trace[i].ev \in {"smooth_move_visual_cursor_to", "highlight_by_box"}}
OperationEvents ==
    {i \in DOMAIN inv.trace :
        inv.trace[i].ev \notin {"get_elem_by_bid", "smooth_move_visual_cursor_to",
                                "highlight_by_box", "page.expect_file_chooser"}}

\* The operation an action is documented to perform: the Playwright method
\* its comment links to and its docstring describes.
Documented(name) ==
    CASE name \in {"click", "dblclick", "hover", "check", "uncheck", "select_option",
                   "press", "focus", "clear"} -> <<"elem", name>>
      [] name = "mouse_move" -> <<"page.mouse", "move">>
      [] name = "mouse_click" -> <<"page.mouse", "click">>
      [] name = "mouse_dblclick" -> <<"page.mouse", "dblclick">>
      [] name = "mouse_up" -> <<"page.mouse", "up">>
      [] name = "mouse_down" -> <<"page.mouse", "down">>

\* The receiver and method of an operation of the model.
Method(op) ==
    CASE op = "elem.click" -> <<"elem", "click">>
      [] op = "elem.dblclick" -> <<"elem", "dblclick">>
      [] op = "elem.hover" -> <<"elem", "hover">>
      [] op = "elem.check" -> <<"elem", "check">>
      [] op = "elem.uncheck" -> <<"elem", "uncheck">>
      [] op = "elem.select_option" -> <<"elem", "select_option">>
      [] op = "elem.press" -> <<"elem", "press">>
      [] op = "elem.focus" -> <<"elem", "focus">>
      [] op = "elem.clear" -> <<"elem", "clear">>
      [] op = "page.mouse.move" -> <<"page.mouse", "move">>
      [] op = "page.mouse.click" -> <<"page.mouse", "click">>
      [] op = "page.mouse.dblclick" -> <<"page.mouse", "dblclick">>
      [] op = "page.mouse.up" -> <<"page.mouse", "up">>
      [] op = "page.mouse.down" -> <<"page.mouse", "down">>
      [] OTHER -> <<"other", op>>

DocumentedActions ==
    {"click", "dblclick", "hover", "check", "uncheck", "select_option", "press",
     "focus", "clear"} \cup CoordinateActions

\* C13: an action that has completed has invoked the operation documented for
\* its name, with the caller's button where the action takes one.
C13_NamedOperation ==
    (inv.name \in DocumentedActions /\ inv.status = "done") =>
        \E i \in OperationEvents :
            /\ Method(inv.trace[i].ev) = Documented(inv.name)
            /\ inv.name \in ButtonActions => inv.trace[i].arg = <<inv.button>>

\* C14: an upload action fails only when a call of the page collaborator
\* raises, and when it completes its last two operations are the click and
\* then one set_files call with the given file list.
C14_UploadOrder ==
    inv.name \in UploadActions =>
        /\ inv.status = "failed" =>
              inv.err \in {"ElementNotFound", "actionability", "other", "effect"}
        /\ inv.status = "done" =>
              LET n == Len(inv.trace)
              IN  /\ n >= 2
                  /\ inv.trace[n - 1].ev \in {"elem.click", "page.mouse.click"}
                  /\ inv.trace[n].ev = "file_chooser.set_files"
                  /\ inv.trace[n].arg = inv.file

CursorActions == {"click", "dblclick", "hover", "check", "uncheck"} \cup CoordinateActions

\* C15: an action that moves the cursor triggers no cursor animation when the
\* demo mode is off; in any other demo mode it triggers one, never more, and
\* that one before every call of the underlying operation.
C15_OneCursorAnimation ==
    inv.name \in CursorActions =>
        /\ inv.demo_mode = "off" => CursorEvents = {}
        /\ inv.demo_mode # "off" =>
              /\ Cardinality(CursorEvents) <= 1
              /\ (OperationEvents # {} \/ inv.status = "done") =>
                    /\ Cardinality(CursorEvents) = 1
                    /\ \A c \in CursorEvents, o \in OperationEvents : c < o

\* A click in demo mode completed on its forced retry: two calls of the
\* operation, one cursor animation before both.
C15_Witness ==
    /\ inv.name = "click"
    /\ inv.demo_mode = "all_blue"
    /\ inv.status = "done"
    /\ Cardinality(OperationEvents) = 2
    /\ Cardinality(CursorEvents) = 1

\* C16: no action fails because a cursor animation or a box highlight failed.
C16_EffectFailureSwallowed ==
    \A i \in EffectEvents :
        inv.trace[i].outcome # "ok" => ~(inv.status = "failed" /\ inv.err = "effect")

\* C17: keyboard_type and fill never fail on computing the delay, whatever
\* the length of the text; in demo mode the text is typed with the delay
\* max(2000 / L, 10), and with demo mode off no delay is passed.
C17_TypingDelay ==
    inv.name \in TextActions =>
        /\ inv.err # "ZeroDivisionError"
        /\ inv.status = "done" =>
              \E i \in OperationEvents :
                  IF inv.demo_mode # "off"
                  THEN /\ inv.trace[i].ev \in {"page.keyboard.type", "elem.type"}
                       /\ inv.trace[i].arg = TypingDelay(inv.len)
                  ELSE \/ inv.trace[i].ev = "page.keyboard.type" /\ inv.trace[i].arg = <<>>
                       \/ inv.trace[i].ev = "elem.fill"

\* C19: with the retry flag set, an element action does not fail with an
\* actionability error of its operation before having retried it with force.
C19_RetryPipeline ==
    (/\ inv.name \in PlainElementActions \cup {"click", "fill"}
     /\ inv.retry_with_force
     /\ inv.status = "failed"
     /\ inv.err = "actionability")
        => \E i \in OperationEvents : inv.trace[i].force = Val(TRUE)

\* ------------------------------------- properties of the global instance
\* C18: at most one engine is ever started and all callers of
\* _get_global_playwright that have returned hold the same instance; with an
\* instance installed before first use no engine is started and the callers
\* hold the installed instance.
C18_SingleEngine ==
    /\ started <= 1
    /\ \A g, h \in Getters :
          (getters[g].pc = "done" /\ getters[h].pc = "done")
              => getters[g].result = getters[h].result
    /\ \A g \in Getters :
          (getters[g].pc = "done" /\ started = 0) => getters[g].result = <<"installed", 0>>

\* ---------------------------------------- properties of the namespaces
Entered(i) == runs[i].pc # "idle"
NamespaceDict(i) == dicts[Get(runs[i].namespace)]

\* C20: the template is built once, by the first invocation, and never
\* changes; every invocation has a namespace of its own in which each name is
\* bound as in the template or by the invocation's own code, never by another
\* invocation; and every invocation binds its own context values.
C20_TemplateOnce ==
    /\ built <= 1
    /\ (built = 1) <=> (ACTION_EXEC_MODULE # <<>>)
    /\ (\E i \in Invocations : Entered(i)) => built = 1
    /\ ACTION_EXEC_MODULE # <<>> => dicts[0] = CatalogBindings
    /\ \A i \in Invocations :
          Entered(i) =>
              /\ runs[i].bound = <<i>>
              /\ \A n \in Names : NamespaceDict(i)[n] \in {CatalogBindings[n], UserValue(i)}
              /\ \A j \in Invocations \ {i} :
                    Entered(j) => runs[j].namespace # runs[i].namespace

\* Invocation 1 has rebound click and defined x; invocation 2, entered later
\* and still running, sees the catalog's click and no x.
C20_Witness ==
    /\ runs[1].pc = "running" /\ runs[2].pc = "running"
    /\ NamespaceDict(1)["click"] = UserValue(1)
    /\ NamespaceDict(1)["x"] = UserValue(1)
    /\ NamespaceDict(2)["click"] = CatalogFunction
    /\ NamespaceDict(2)["x"] = Absent
    /\ built = 1

\* ------------------------------------------ properties of the tab actions
\* C21: while a tab action awaits the evaluate that dispatches the pageshow
\* notification on the page that becomes active, the active page of the
\* context already is that page.
C21_NotifyAfterSwitch ==
    \A t \in Tasks :
        (InFlight(t) /\ Top(t).act.name \in TabActions /\ Top(t).act.phase = "evaluate")
            => ctxStore[RunContext(t)].page = Val(Top(t).act.target)

\* C22: whenever the code of a call is about to start its next action, the
\* tab list of the browsing context is not empty and the active page of the
\* context is one of its open tabs.
C22_NoContextlessState ==
    \A t \in Tasks :
        (InFlight(t) /\ Top(t).kind = "exec" /\ Idle(Top(t)))
            => LET page == Get(ctxStore[RunContext(t)].page)
               IN  /\ tabs[ContextOf(page)] # <<>>
                   /\ IsOpen(page)

\* C24: tab_focus(index) leaves the tab list as it is; the page it focuses is
\* the tab at position index, which is the active page once it has returned;
\* with an index that is not below the number of tabs it raises before
\* bring_to_front and evaluate, and the active page stays what it was.
FocusSteps ==
    \A t \in Tasks :
        (/\ stack'[t] # <<>>
         /\ stack'[t] # stack[t]
         /\ Top(t)'.act.name = "tab_focus")
            => /\ tabs' = tabs
               /\ created' = created
               /\ Top(t)'.act.err = "IndexError"
                     => /\ Idle(Top(t))
                        /\ ctxStore' = ctxStore
FocusStates ==
    \A t \in Tasks :
        (InFlight(t) /\ Top(t).act.name = "tab_focus" /\ Top(t).act.err # "LookupError")
            => LET act == Top(t).act
                   pages == tabs[ContextOf(act.page)]
               IN  /\ act.phase # "failed"
                         => /\ act.index < Len(pages)
                            /\ act.target = PageOf(ContextOf(act.page), pages[act.index + 1])
                   /\ act.phase = "done"
                         => ctxStore[RunContext(t)].page = Val(act.target)
                   /\ act.err = "IndexError"
                         => /\ ctxStore[RunContext(t)].page = Val(act.page)
                            /\ act.target = NoPage
C24_TabFocus == [][FocusSteps]_vars /\ []FocusStates
C24_Witness ==
    /\ TabAction(1, "tab_focus", "done")
    /\ tabs[1] = <<1, 2, 3>>
    /\ Top(1).act.page = PageOf(1, 3)
    /\ Top(1).act.index = 1
    /\ Top(1).active = PageOf(1, 2)

\* C23: drag_and_drop hovers the source, presses the button, resolves and
\* hovers the target and releases the button, in that order; once it is over,
\* done or failed, every press of the button it made is followed by a release.
Pressed == {i \in DOMAIN inv.trace :
               inv.trace[i].ev = "page.mouse.down" /\ inv.trace[i].outcome = "ok"}
Resolved == {i \in DOMAIN inv.trace : inv.trace[i].ev = "get_elem_by_bid"}
C23_DragAndDrop ==
    (inv.name = "drag_and_drop" /\ inv.status \in {"done", "failed"}) =>
        /\ \A i \in OperationEvents :
              inv.trace[i].ev =
                  <<"elem.hover", "page.mouse.down", "elem.hover", "page.mouse.up">>
                      [Cardinality({j \in OperationEvents : j <= i})]
        /\ \A i \in Resolved :
              Cardinality({j \in Resolved : j <= i}) = 2 => \E j \in Pressed : j < i
        /\ \A i \in Pressed :
              \E j \in DOMAIN inv.trace : j > i /\ inv.trace[j].ev = "page.mouse.up"

====
